---------------------------- MODULE Spec2Model ----------------------------
(***************************************************************************)
(* Model of the two MQTT certificate-issuance clients of the repository:   *)
(*   "test"  - src/mqtt_credential_test.py, the scenario runner            *)
(*   "issue" - src/mqtt_issue_cert.py, the simple issuance script          *)
(* Each program has a foreground thread (main / run_scenario) and the      *)
(* transport's background loop thread that fires the callbacks.            *)
(*                                                                         *)
(* A topic is a sequence of atoms: the atom "/" is the delimiter, every    *)
(* other atom is a maximal non-empty run of characters without '/' (so no  *)
(* two such atoms are adjacent).  Model time is counted in polling ticks.  *)
(***************************************************************************)
EXTENDS Integers, Sequences, FiniteSets, TLC

\* ------------------------------------------------------------------ bounds
\* longest topic, in atoms, among the enumerated arbitrary topics
MaxTopicLen == 4
\* request_id is drawn from 1..MaxRid
MaxRid == 1
\* ticks of model time in the runner's timeout window, and the largest --timeout
TimeoutTicks == 2
\* messages the broker delivers in one run
MaxMsgs == 2

\* ------------------------------------------------------------------ topics
Slash == "/"

Words == {"202", "400"}

Atoms == Words \cup {Slash}

RECURSIVE SeqsUpTo(_)
SeqsUpTo(n) ==
    IF n = 0 THEN {<<>>}
    ELSE LET shorter == SeqsUpTo(n - 1)
         IN  shorter \cup {Append(s, a) : s \in {x \in shorter : Len(x) = n - 1}, a \in Atoms}

\* a string in atom form: no two adjacent atoms are both words
IsTopic(t) == \A i \in 1..(Len(t) - 1) : t[i] = Slash \/ t[i + 1] = Slash

RidToken(rid) == "?$rid=" \o ToString(rid) \o "&$version=1"

\* the topics under the subscribe filter $iothub/credentials/res/# start with this
ResPrefix == <<"$iothub", Slash, "credentials", Slash, "res">>

\* $iothub/credentials/res/<statusCode>/?$rid=<rid>&$version=1
ResponseTopic(code, rid) == ResPrefix \o <<Slash, code, Slash, RidToken(rid)>>

RIDs == 1..MaxRid

\* rids a response can carry: those of this run and one of another request
ResponseRids == 1..(MaxRid + 1)

\* what a broker can deliver on the filter: the filter's own level and all below it
DeliveredTopics ==
    {ResPrefix, ResPrefix \o <<Slash>>}
        \cup {ResPrefix \o <<Slash, c>> : c \in Words}
        \cup {ResponseTopic(c, r) : c \in Words, r \in ResponseRids}

\* the topics the parsing functions are tried on
Topics == {t \in SeqsUpTo(MaxTopicLen) : IsTopic(t)} \cup DeliveredTopics

\* -------------------------------------------------------------- str.split
RECURSIVE SplitFrom(_, _, _, _)
SplitFrom(t, i, cur, acc) ==
    IF i > Len(t) THEN Append(acc, cur)
    ELSE IF t[i] = Slash THEN SplitFrom(t, i + 1, "", Append(acc, cur))
    ELSE SplitFrom(t, i + 1, cur \o t[i], acc)

\* topic.split('/'): the segments between the delimiters, "" for an empty one
Split(t) == SplitFrom(t, 1, "", <<>>)

\* the topic as the string it is: its atoms, concatenated
RECURSIVE TopicString(_)
TopicString(t) == IF t = <<>> THEN "" ELSE Head(t) \o TopicString(Tail(t))

IndexError == "IndexError"

\* parts[i] with Python's 0-based index: raises IndexError past the end
Item(parts, i) == IF i < Len(parts) THEN parts[i + 1] ELSE IndexError


\* ------------------------------------------------------- validate_response
\* what a call did: returned (success, message), or raised
Returns(success, message) == [raised |-> FALSE, success |-> success, message |-> message]

Raises(exc) == [raised |-> TRUE, success |-> FALSE, message |-> <<exc>>]

MsgParseFailure == "FAILURE: Could not parse status code from topic"

MsgExpected202 == "FAILURE: Expected status code 202, got "

\* MQTTTestScenario.validate_response
Base_validate_response(topic, payload) == Returns(TRUE, <<"Response received">>)

\* variant of validate_response that reads parts[2]
HappyPath_validate_response_WrongSegment(topic, payload) ==
    LET parts == Split(topic)
    IN  IF Len(parts) >= 4
        THEN LET status_code == Item(parts, 2)
             IN  IF status_code = "202"
                 THEN Returns(TRUE, <<"SUCCESS: Received expected status code 202">>)
                 ELSE Returns(FALSE, <<MsgExpected202, status_code>>)
        ELSE Returns(FALSE, <<MsgParseFailure>>)

\* HappyPathScenario.validate_response
HappyPath_validate_response(topic, payload) ==
    LET parts == Split(topic)
    IN  IF Len(parts) >= 4
        THEN LET status_code == Item(parts, 3)
             IN  IF status_code = IndexError THEN Raises(IndexError)
                 ELSE IF status_code = "202"
                      THEN Returns(TRUE, <<"SUCCESS: Received expected status code 202">>)
                      ELSE Returns(FALSE, <<MsgExpected202, status_code>>)
        ELSE Returns(FALSE, <<MsgParseFailure>>)

\* variant of validate_response that reads parts[3] without checking len(parts)
DisconnectReconnect_validate_response_NoLenCheck(topic, payload) ==
    LET parts == Split(topic)
        status_code == Item(parts, 3)
    IN  IF status_code = IndexError THEN Raises(IndexError)
        ELSE IF status_code = "202"
             THEN Returns(TRUE,
                    <<"SUCCESS: Received response after reconnection (status code 202)">>)
             ELSE Returns(FALSE, <<MsgExpected202, status_code>>)

\* DisconnectReconnectScenario.validate_response
DisconnectReconnect_validate_response(topic, payload) ==
    LET parts == Split(topic)
    IN  IF Len(parts) >= 4
        THEN LET status_code == Item(parts, 3)
             IN  IF status_code = IndexError THEN Raises(IndexError)
                 ELSE IF status_code = "202"
                      THEN Returns(TRUE,
                             <<"SUCCESS: Received response after reconnection (status code 202)">>)
                      ELSE Returns(FALSE, <<MsgExpected202, status_code>>)
        ELSE Returns(FALSE, <<MsgParseFailure>>)

\* SCENARIOS: the registry of scenario names
SCENARIOS == {"happy_path", "disconnect_reconnect"}

\* scenario.validate_response, dispatched on the scenario's class
validate_response(name, topic, payload) ==
    IF name = "happy_path" THEN HappyPath_validate_response(topic, payload)
    ELSE IF name = "disconnect_reconnect"
         THEN DisconnectReconnect_validate_response(topic, payload)
         ELSE Base_validate_response(topic, payload)

None == "None"

\* mqtt_issue_cert.on_message: the status code it extracts from msg.topic
IssueCert_status_code(topic) ==
    LET parts == Split(topic)
    IN  IF Len(parts) >= 4 THEN Item(parts, 3) ELSE None

\* mqtt_credential_test on_message: the status code it prints, if any
Test_printed_status_code(topic) ==
    LET parts == Split(topic)
    IN  IF Len(parts) >= 4 THEN Item(parts, 3) ELSE None

\* ------------------------------------------------------------ msg.payload
\* payload bytes: none, or valid UTF-8 followed by a byte that is not
Payloads == {<<>>, <<"cert", "xFF">>}

\* bytes.decode('utf-8', errors='replace')
Utf8Replace(b) == IF b = "xFF" THEN "uFFFD" ELSE b

\* payload_str of both on_message handlers
Decode(payload) ==
    IF payload = <<>> THEN <<>> ELSE [i \in 1..Len(payload) |-> Utf8Replace(payload[i])]

\* ------------------------------------------------------------------- state
VARIABLES
    prog,               \* "test": mqtt_credential_test.py, "issue": mqtt_issue_cert.py
    args,               \* the parsed command line
    pc,                 \* where the foreground thread is
    scenario,           \* test: the scenario object run_scenario built
    userdata,           \* issue: the userdata dict handed to the client
    elapsed,            \* ticks of time.time() - start_time
    response_received,  \* the module-level flag
    response_data,      \* issue: the module-level outcome record
    outcome,            \* test: what validate_response last returned (it is printed)
    client,             \* the transport client object and its loop thread
    delivered,          \* the message last handed to on_message: topic, connection number
    last,               \* the transport calls and the callback of the step just taken
    count,              \* how often each transport call and callback has happened
    printed,            \* the kinds of messages printed so far
    exit_code,          \* the process exit status
    call_topic,         \* direct calls of the pure functions: the argument
    call_result,        \* direct calls of the pure functions: function and result
    handler             \* statement by statement: the on_message call under way

vars == <<prog, args, pc, scenario, userdata, elapsed, response_received, response_data,
          outcome, client, delivered,
          last, count, printed, exit_code, call_topic, call_result, handler>>

\* an optional value: Nothing, or Some(x); The(o) is the x of Some(x)
Nothing == <<>>

Some(x) == <<x>>

The(o) == o[1]

\* HUB_SAS_KEY is the placeholder "<Your Hub SAS Key Here>": base64.b64decode rejects it
HubSasKeyDecodes == FALSE

SubscribeTopic == "$iothub/credentials/res/#"

\* f"$iothub/credentials/POST/issueCertificate/?$rid={request_id}"
PublishTopic(request_id) ==
    "$iothub/credentials/POST/issueCertificate/?$rid=" \o ToString(request_id)

\* HappyPathScenario() / DisconnectReconnectScenario()
NewScenario(name, request_id) ==
    [name |-> name,
     request_id |-> request_id,
     subscribe_topic |-> SubscribeTopic,
     publish_topic |-> PublishTopic(request_id),
     disconnect_after_publish |-> (name = "disconnect_reconnect"),
     reconnect_delay |-> IF name = "disconnect_reconnect" THEN 3 ELSE 0]

\* mqtt_issue_cert.main: the userdata dict
NewUserdata(request_id) ==
    [subscribe_topic |-> SubscribeTopic, publish_topic |-> PublishTopic(request_id)]

\* no client object yet; mqtt.Client(...) makes one that was never connected
NoClient ==
    [created |-> FALSE,
     state |-> "new",           \* new, connecting, connected, refused, disconnecting, closed
     connects |-> 0,            \* connect() calls so far
     connack_ok |-> FALSE,      \* this connection was acknowledged with rc = 0
     suback_seen |-> FALSE,     \* this connection's subscribe was acknowledged
     sub_sent |-> FALSE,        \* SUBSCRIBE was sent on this connection
     sub_pending |-> FALSE,     \* ... and its SUBACK has not been handled
     pub_pending |-> FALSE,     \* PUBLISH was sent and its PUBACK has not been handled
     loop |-> "not_started",    \* not_started, running, stopped
     thread_alive |-> FALSE]    \* the loop thread exists and has not ended

\* mqtt.Client(client_id=..., clean_session=True, protocol=mqtt.MQTTv311)
NewClient == [NoClient EXCEPT !.created = TRUE]

Ev(e, a) == <<e, a>>

\* the transport calls the programs make, their sleeps (sleep: the reconnect delay,
\* poll: the 0.1 s of a wait loop) and the callbacks the loop thread fires
EventNames ==
    {"connect", "loop_start", "loop_stop", "subscribe", "publish", "publish_rejected",
     "unsubscribe", "disconnect", "sleep", "poll",
     "on_connect", "on_subscribe", "on_publish", "on_message", "on_disconnect"}

NoCall == [fn |-> None, result |-> Nothing]

TestArgs ==
    [scenario : SCENARIOS \cup {"no_such_scenario"},
     list_scenarios : BOOLEAN,
     auth : {"cert", "sas", "none"}]

\* --timeout: none of the window, or all of it
IssueArgs == [timeout : {0, TimeoutTicks}]

\* the module-level state of either program when main() is entered
Init ==
    /\ prog \in {"test", "issue"}
    /\ args \in (IF prog = "test" THEN TestArgs ELSE IssueArgs)
    /\ pc = "main"
    /\ scenario = Nothing
    /\ userdata = Nothing
    /\ elapsed = 0
    /\ response_received = FALSE
    /\ response_data = Nothing
    /\ outcome = Nothing
    /\ client = NoClient
    /\ delivered = Nothing
    /\ last = <<>>
    /\ count = [e \in EventNames |-> 0]
    /\ printed = {}
    /\ exit_code = Nothing
    /\ call_topic = <<>>
    /\ call_result = NoCall
    /\ handler = Nothing

\* the window the foreground waits: timeout = 15 (test), args.timeout (issue)
timeout == IF prog = "test" THEN TimeoutTicks ELSE args.timeout

\* client.is_connected()
is_connected == client.state = "connected"

Exit(code) == pc' = "exited" /\ exit_code' = Some(code)

\* client.disconnect(): marks the session as disconnecting
Disconnected(c) ==
    IF c.state \in {"connecting", "connected"} THEN [c EXCEPT !.state = "disconnecting"] ELSE c

\* client.connect(): a fresh session on a fresh socket
Connected(c) ==
    [c EXCEPT !.state = "connecting", !.connects = @ + 1, !.connack_ok = FALSE,
              !.suback_seen = FALSE, !.sub_sent = FALSE, !.sub_pending = FALSE,
              !.pub_pending = FALSE]

\* client.loop_stop(): ends and joins the loop thread, if there is one
LoopStopped(c) ==
    IF c.loop = "running" THEN [c EXCEPT !.loop = "stopped", !.thread_alive = FALSE] ELSE c

\* ---------------------------------------------------------------- helpers
\* the step's transport calls and callbacks, and how often each has happened
LogAll(es) ==
    /\ last' = es
    /\ count' = [e \in EventNames |->
                    count[e] + Cardinality({i \in DOMAIN es : es[i][1] = e})]

Log(e, a) == LogAll(<<Ev(e, a)>>)

\* a step that calls nothing of the transport and is no callback
NoLog == last' = <<>> /\ UNCHANGED count

Say(kind) == printed' = printed \cup {kind}

UnchangedCalls == UNCHANGED <<call_topic, call_result, handler>>

\* a step that is not the message callback
NoMessage == UNCHANGED delivered /\ UnchangedCalls

\* the message callback was handed this topic on the current connection
Deliver(topic) ==
    delivered' = Some([topic |-> topic, connection |-> client.connects])

Count(e) == count[e]

Happened(e) == count[e] > 0

\* the step just taken made this call or was this callback
Did(e) == \E i \in DOMAIN last : last[i][1] = e

\* ------------------------------------------- mqtt_credential_test.py: main
\* variant of main() that looks the scenario up without checking the name first
Test_main_NoScenarioCheck ==
    /\ prog = "test" /\ pc = "main"
    /\ IF args.list_scenarios
       THEN Say("list_scenarios") /\ Exit(0)
       ELSE IF args.auth = "none"
            THEN Say("authentication_method_required") /\ Exit(2)
            ELSE pc' = "run_scenario" /\ UNCHANGED <<printed, exit_code>>
    /\ UNCHANGED <<prog, args, scenario, userdata, elapsed, response_received,
                   response_data, outcome, client>>
    /\ NoLog
    /\ NoMessage

\* main(): the argument checks, in the order the code makes them
Test_main ==
    /\ prog = "test" /\ pc = "main"
    /\ IF args.list_scenarios
       THEN Say("list_scenarios") /\ Exit(0)
       ELSE IF args.auth = "none"
            THEN Say("authentication_method_required") /\ Exit(2)
            ELSE IF args.scenario \notin SCENARIOS
                 THEN Say("unknown_scenario") /\ Exit(1)
                 ELSE pc' = "run_scenario" /\ UNCHANGED <<printed, exit_code>>
    /\ UNCHANGED <<prog, args, scenario, userdata, elapsed, response_received,
                   response_data, outcome, client>>
    /\ NoLog
    /\ NoMessage

\* variant of run_scenario that leaves the module-level flag as it finds it
Test_run_scenario_NoReset ==
    /\ prog = "test" /\ pc = "run_scenario"
    /\ \E request_id \in RIDs : scenario' = Some(NewScenario(args.scenario, request_id))
    /\ client' = NewClient
    /\ IF args.auth = "sas" /\ ~HubSasKeyDecodes
       THEN Say("error_decoding_key") /\ Exit(1)
       ELSE pc' = "connect" /\ UNCHANGED <<printed, exit_code>>
    /\ UNCHANGED <<prog, args, userdata, elapsed, response_received, response_data,
                   outcome>>
    /\ NoLog
    /\ NoMessage

\* run_scenario, up to the try block: reset the flag, build scenario and client
Test_run_scenario ==
    /\ prog = "test" /\ pc = "run_scenario"
    /\ response_received' = FALSE
    /\ \E request_id \in RIDs : scenario' = Some(NewScenario(args.scenario, request_id))
    /\ client' = NewClient
    /\ IF args.auth = "sas" /\ ~HubSasKeyDecodes
       THEN Say("error_decoding_key") /\ Exit(1)
       ELSE pc' = "connect" /\ UNCHANGED <<printed, exit_code>>
    /\ UNCHANGED <<prog, args, userdata, elapsed, response_data, outcome>> /\ NoLog
    /\ NoMessage

\* except Exception: print the error and sys.exit(1)
Test_except_Exception ==
    /\ Say("error") /\ Exit(1)

\* client.connect(HOST, PORT, keepalive=60), which raises when the broker is unreachable
Test_connect ==
    /\ prog = "test" /\ pc = "connect"
    /\ \/ /\ client' = Connected(client)
          /\ Log("connect", "main")
          /\ pc' = "loop_start"
          /\ UNCHANGED <<printed, exit_code>>
       \/ /\ Test_except_Exception
          /\ UNCHANGED <<client>> /\ NoLog
    /\ UNCHANGED <<prog, args, scenario, userdata, elapsed, response_received,
                   response_data, outcome>>
    /\ NoMessage

\* client.loop_start(); timeout = 15; start_time = time.time()
Test_loop_start ==
    /\ prog = "test" /\ pc = "loop_start"
    /\ client' = [client EXCEPT !.loop = "running", !.thread_alive = TRUE]
    /\ Log("loop_start", "main")
    /\ elapsed' = 0
    /\ pc' = IF The(scenario).disconnect_after_publish THEN "wait_disconnect"
             ELSE "wait_response"
    /\ UNCHANGED <<prog, args, scenario, userdata, response_received, response_data,
                   outcome, printed, exit_code>>
    /\ NoMessage

\* variant of the wait for the disconnection that has no timeout
Test_wait_disconnect_NoTimeout ==
    /\ prog = "test" /\ pc = "wait_disconnect"
    /\ IF is_connected
       THEN elapsed' = elapsed + 1 /\ pc' = pc /\ Log("poll", "0.1")
       ELSE elapsed' = elapsed /\ NoLog /\ pc' = "check_disconnected"
    /\ UNCHANGED <<prog, args, scenario, userdata, response_received, response_data,
                   outcome, client, printed, exit_code>>
    /\ NoMessage

\* while client.is_connected() and (time.time() - start_time) < timeout: time.sleep(0.1)
Test_wait_disconnect ==
    /\ prog = "test" /\ pc = "wait_disconnect"
    /\ IF is_connected /\ elapsed < timeout
       THEN elapsed' = elapsed + 1 /\ pc' = pc /\ Log("poll", "0.1")
       ELSE elapsed' = elapsed /\ NoLog /\ pc' = "check_disconnected"
    /\ UNCHANGED <<prog, args, scenario, userdata, response_received, response_data,
                   outcome, client, printed, exit_code>>
    /\ NoMessage

\* variant of the check that goes on to the reconnect whatever the client's state
Test_check_disconnected_AlwaysReconnects ==
    /\ prog = "test" /\ pc = "check_disconnected"
    /\ Say("client_disconnected_as_expected") /\ pc' = "reconnect_sleep"
    /\ UNCHANGED <<prog, args, scenario, userdata, elapsed, response_received,
                   response_data, outcome, client, exit_code>>
    /\ NoLog
    /\ NoMessage

\* if not client.is_connected(): announce the disconnection, else go on to the wait
Test_check_disconnected ==
    /\ prog = "test" /\ pc = "check_disconnected"
    /\ IF ~is_connected
       THEN Say("client_disconnected_as_expected") /\ pc' = "reconnect_sleep"
       ELSE UNCHANGED printed /\ pc' = "wait_response"
    /\ UNCHANGED <<prog, args, scenario, userdata, elapsed, response_received,
                   response_data, outcome, client, exit_code>>
    /\ NoLog
    /\ NoMessage

\* time.sleep(scenario.reconnect_delay)
Test_reconnect_sleep ==
    /\ prog = "test" /\ pc = "reconnect_sleep"
    /\ Log("sleep", ToString(The(scenario).reconnect_delay))
    /\ pc' = "reconnect"
    /\ UNCHANGED <<prog, args, scenario, userdata, elapsed, response_received,
                   response_data, outcome, client, printed, exit_code>>
    /\ NoMessage

\* variant of the reconnect that builds the scenario anew, with another request id
Test_reconnect_NewScenario ==
    /\ prog = "test" /\ pc = "reconnect"
    /\ \/ /\ client' = Connected(client)
          /\ Log("connect", "main")
          /\ elapsed' = 0
          /\ pc' = "wait_response"
          /\ scenario' = Some(NewScenario(The(scenario).name,
                                         The(scenario).request_id + 1))
          /\ UNCHANGED <<printed, exit_code>>
       \/ /\ Test_except_Exception
          /\ UNCHANGED <<client, elapsed, scenario>> /\ NoLog
    /\ UNCHANGED <<prog, args, userdata, response_received, response_data, outcome>>
    /\ NoMessage

\* variant of the reconnect that keeps the start_time of the first wait
Test_reconnect_KeepsStartTime ==
    /\ prog = "test" /\ pc = "reconnect"
    /\ \/ /\ client' = Connected(client)
          /\ Log("connect", "main")
          /\ pc' = "wait_response"
          /\ UNCHANGED <<printed, exit_code>>
       \/ /\ Test_except_Exception
          /\ UNCHANGED <<client>> /\ NoLog
    /\ UNCHANGED <<prog, args, scenario, userdata, elapsed, response_received,
                   response_data, outcome>>
    /\ NoMessage

\* client.connect(HOST, PORT, keepalive=60) again; start_time = time.time()
Test_reconnect ==
    /\ prog = "test" /\ pc = "reconnect"
    /\ \/ /\ client' = Connected(client)
          /\ Log("connect", "main")
          /\ elapsed' = 0
          /\ pc' = "wait_response"
          /\ UNCHANGED <<printed, exit_code>>
       \/ /\ Test_except_Exception
          /\ UNCHANGED <<client, elapsed>> /\ NoLog
    /\ UNCHANGED <<prog, args, scenario, userdata, response_received, response_data,
                   outcome>>
    /\ NoMessage

\* while not response_received and (time.time() - start_time) < timeout: time.sleep(0.1)
Test_wait_response ==
    /\ prog = "test" /\ pc = "wait_response"
    /\ IF ~response_received /\ elapsed < timeout
       THEN elapsed' = elapsed + 1 /\ pc' = pc /\ Log("poll", "0.1")
       ELSE elapsed' = elapsed /\ NoLog /\ pc' = "check_response"
    /\ UNCHANGED <<prog, args, scenario, userdata, response_received, response_data,
                   outcome, client, printed, exit_code>>
    /\ NoMessage

\* if not response_received: print the timeout and client.disconnect()
Test_check_response ==
    /\ prog = "test" /\ pc = "check_response"
    /\ IF ~response_received
       THEN /\ Say("timeout")
            /\ client' = Disconnected(client)
            /\ Log("disconnect", "timeout")
       ELSE UNCHANGED <<printed, client>> /\ NoLog
    /\ pc' = "grace_sleep"
    /\ UNCHANGED <<prog, args, scenario, userdata, elapsed, response_received,
                   response_data, outcome, exit_code>>
    /\ NoMessage

\* time.sleep(0.5)
Test_grace_sleep ==
    /\ prog = "test" /\ pc = "grace_sleep"
    /\ pc' = "loop_stop"
    /\ UNCHANGED <<prog, args, scenario, userdata, elapsed, response_received,
                   response_data, outcome, client, printed, exit_code>>
    /\ NoLog
    /\ NoMessage

\* client.loop_stop(); run_scenario returns and main() returns: exit status 0
Test_loop_stop ==
    /\ prog = "test" /\ pc = "loop_stop"
    /\ client' = LoopStopped(client)
    /\ Log("loop_stop", "main")
    /\ Exit(0)
    /\ UNCHANGED <<prog, args, scenario, userdata, elapsed, response_received,
                   response_data, outcome, printed>>
    /\ NoMessage

\* where the foreground is inside the try block
TryPcs ==
    {"connect", "loop_start", "wait_disconnect", "check_disconnected", "reconnect_sleep",
     "reconnect", "wait_response", "check_response", "grace_sleep", "loop_stop"}

\* except KeyboardInterrupt: print, client.disconnect()
Test_KeyboardInterrupt ==
    /\ prog = "test" /\ pc \in TryPcs
    /\ Say("interrupted")
    /\ client' = Disconnected(client)
    /\ Log("disconnect", "interrupt")
    /\ pc' = "interrupt_loop_stop"
    /\ UNCHANGED <<prog, args, scenario, userdata, elapsed, response_received,
                   response_data, outcome, exit_code>>
    /\ NoMessage

\* ... client.loop_stop(); run_scenario returns and main() returns: exit status 0
Test_interrupt_loop_stop ==
    /\ prog = "test" /\ pc = "interrupt_loop_stop"
    /\ client' = LoopStopped(client)
    /\ Log("loop_stop", "interrupt")
    /\ Exit(0)
    /\ UNCHANGED <<prog, args, scenario, userdata, elapsed, response_received,
                   response_data, outcome, printed>>
    /\ NoMessage

\* ------------------------------------ mqtt_credential_test.py: callbacks
\* the loop thread is there to fire a callback
LoopThreadRuns == pc # "exited" /\ client.loop = "running" /\ client.thread_alive

\* the session's socket is open and was acknowledged: packets can still arrive
SessionOpen == client.connack_ok /\ client.state \in {"connected", "disconnecting"}

\* CONNACK result codes: 0 accepted, 1..5 refused
ConnackCodes == 0..5

\* result.rc of client.publish
PublishResults == {"MQTT_ERR_SUCCESS", "MQTT_ERR_NO_CONN"}

\* sys.exit(1) inside a callback raises SystemExit in the loop thread, which ends it
ThreadExited(c) == [c EXCEPT !.thread_alive = FALSE]

\* variant of on_connect that publishes the request right after subscribing
Test_on_connect_PublishesEarly(rc) ==
    /\ prog = "test" /\ LoopThreadRuns /\ client.state = "connecting"
    /\ IF rc = 0
       THEN /\ client' = [client EXCEPT !.state = "connected", !.connack_ok = TRUE,
                                        !.sub_sent = TRUE, !.sub_pending = TRUE,
                                        !.pub_pending = TRUE]
            /\ LogAll(<<Ev("on_connect", "0"),
                        Ev("subscribe", The(scenario).subscribe_topic),
                        Ev("publish", The(scenario).publish_topic)>>)
            /\ UNCHANGED printed
       ELSE /\ client' = ThreadExited([client EXCEPT !.state = "refused"])
            /\ Log("on_connect", "refused")
            /\ Say("connection_failed")
    /\ UNCHANGED <<prog, args, pc, scenario, userdata, elapsed, response_received,
                   response_data, outcome, exit_code>>
    /\ NoMessage

\* on_connect(client, userdata, flags, rc)
Test_on_connect(rc) ==
    /\ prog = "test" /\ LoopThreadRuns /\ client.state = "connecting"
    /\ IF rc = 0
       THEN /\ client' = [client EXCEPT !.state = "connected", !.connack_ok = TRUE,
                                        !.sub_sent = TRUE, !.sub_pending = TRUE]
            /\ LogAll(<<Ev("on_connect", "0"),
                        Ev("subscribe", The(scenario).subscribe_topic)>>)
            /\ UNCHANGED printed
       ELSE /\ client' = ThreadExited([client EXCEPT !.state = "refused"])
            /\ Log("on_connect", "refused")
            /\ Say("connection_failed")
    /\ UNCHANGED <<prog, args, pc, scenario, userdata, elapsed, response_received,
                   response_data, outcome, exit_code>>
    /\ NoMessage

\* variant of on_subscribe that disconnects when the publish is rejected
Test_on_subscribe_GivesUp(result_rc) ==
    /\ prog = "test" /\ LoopThreadRuns /\ SessionOpen /\ client.sub_pending
    /\ IF result_rc = "MQTT_ERR_SUCCESS"
       THEN /\ client' = [client EXCEPT !.sub_pending = FALSE, !.suback_seen = TRUE,
                                        !.pub_pending = TRUE]
            /\ LogAll(<<Ev("on_subscribe", ""), Ev("publish", The(scenario).publish_topic)>>)
            /\ UNCHANGED printed
       ELSE /\ client' = Disconnected([client EXCEPT !.sub_pending = FALSE,
                                                     !.suback_seen = TRUE])
            /\ LogAll(<<Ev("on_subscribe", ""),
                        Ev("publish_rejected", The(scenario).publish_topic),
                        Ev("disconnect", "on_subscribe")>>)
            /\ Say("publish_failed")
    /\ UNCHANGED <<prog, args, pc, scenario, userdata, elapsed, response_received,
                   response_data, outcome, exit_code>>
    /\ NoMessage

\* on_subscribe(client, userdata, mid, granted_qos): publishes the request
Test_on_subscribe(result_rc) ==
    /\ prog = "test" /\ LoopThreadRuns /\ SessionOpen /\ client.sub_pending
    /\ IF result_rc = "MQTT_ERR_SUCCESS"
       THEN /\ client' = [client EXCEPT !.sub_pending = FALSE, !.suback_seen = TRUE,
                                        !.pub_pending = TRUE]
            /\ LogAll(<<Ev("on_subscribe", ""), Ev("publish", The(scenario).publish_topic)>>)
            /\ UNCHANGED printed
       ELSE /\ client' = [client EXCEPT !.sub_pending = FALSE, !.suback_seen = TRUE]
            /\ LogAll(<<Ev("on_subscribe", ""),
                        Ev("publish_rejected", The(scenario).publish_topic)>>)
            /\ Say("publish_failed")
    /\ UNCHANGED <<prog, args, pc, scenario, userdata, elapsed, response_received,
                   response_data, outcome, exit_code>>
    /\ NoMessage

\* variant of on_publish that disconnects without unsubscribing
Test_on_publish_NoUnsubscribe ==
    /\ prog = "test" /\ LoopThreadRuns /\ SessionOpen /\ client.pub_pending
    /\ IF The(scenario).disconnect_after_publish
       THEN /\ client' = Disconnected([client EXCEPT !.pub_pending = FALSE])
            /\ LogAll(<<Ev("on_publish", ""), Ev("disconnect", "on_publish")>>)
       ELSE /\ client' = [client EXCEPT !.pub_pending = FALSE]
            /\ Log("on_publish", "")
    /\ UNCHANGED <<prog, args, pc, scenario, userdata, elapsed, response_received,
                   response_data, outcome, printed, exit_code>>
    /\ NoMessage

\* variant of on_publish that disconnects first and unsubscribes afterwards
Test_on_publish_DisconnectFirst ==
    /\ prog = "test" /\ LoopThreadRuns /\ SessionOpen /\ client.pub_pending
    /\ IF The(scenario).disconnect_after_publish
       THEN /\ client' = Disconnected([client EXCEPT !.pub_pending = FALSE])
            /\ LogAll(<<Ev("on_publish", ""),
                        Ev("disconnect", "on_publish"),
                        Ev("unsubscribe", The(scenario).subscribe_topic)>>)
       ELSE /\ client' = [client EXCEPT !.pub_pending = FALSE]
            /\ Log("on_publish", "")
    /\ UNCHANGED <<prog, args, pc, scenario, userdata, elapsed, response_received,
                   response_data, outcome, printed, exit_code>>
    /\ NoMessage

\* on_publish(client, userdata, mid)
Test_on_publish ==
    /\ prog = "test" /\ LoopThreadRuns /\ SessionOpen /\ client.pub_pending
    /\ IF The(scenario).disconnect_after_publish
       THEN /\ client' = Disconnected([client EXCEPT !.pub_pending = FALSE])
            /\ LogAll(<<Ev("on_publish", ""),
                        Ev("unsubscribe", The(scenario).subscribe_topic),
                        Ev("disconnect", "on_publish")>>)
       ELSE /\ client' = [client EXCEPT !.pub_pending = FALSE]
            /\ Log("on_publish", "")
    /\ UNCHANGED <<prog, args, pc, scenario, userdata, elapsed, response_received,
                   response_data, outcome, printed, exit_code>>
    /\ NoMessage

\* variant of on_message that accepts a response only when its $rid is the request's
Test_on_message_MatchesRid(topic, payload) ==
    /\ prog = "test" /\ LoopThreadRuns /\ SessionOpen /\ client.sub_sent
    /\ Count("on_message") < MaxMsgs
    /\ LET result == validate_response(The(scenario).name, topic, Decode(payload))
       IN  IF result.raised
           THEN /\ client' = ThreadExited(client)
                /\ Log("on_message", TopicString(topic))
                /\ UNCHANGED <<outcome, response_received>>
           ELSE IF topic # <<>> /\ topic[Len(topic)] = RidToken(The(scenario).request_id)
           THEN /\ outcome' = Some(result)
                /\ response_received' = TRUE
                /\ client' = Disconnected(client)
                /\ LogAll(<<Ev("on_message", TopicString(topic)),
                            Ev("disconnect", "on_message")>>)
           ELSE /\ Log("on_message", TopicString(topic))
                /\ UNCHANGED <<outcome, response_received, client>>
    /\ UNCHANGED <<prog, args, pc, scenario, userdata, elapsed, response_data, printed,
                   exit_code>>
    /\ Deliver(topic)
    /\ UnchangedCalls

\* on_message(client, userdata, msg)
Test_on_message(topic, payload) ==
    /\ prog = "test" /\ LoopThreadRuns /\ SessionOpen /\ client.sub_sent
    /\ Count("on_message") < MaxMsgs
    /\ LET result == validate_response(The(scenario).name, topic, Decode(payload))
       IN  IF result.raised
           THEN /\ client' = ThreadExited(client)
                /\ Log("on_message", TopicString(topic))
                /\ UNCHANGED <<outcome, response_received>>
           ELSE /\ outcome' = Some(result)
                /\ response_received' = TRUE
                /\ client' = Disconnected(client)
                /\ LogAll(<<Ev("on_message", TopicString(topic)),
                            Ev("disconnect", "on_message")>>)
    /\ UNCHANGED <<prog, args, pc, scenario, userdata, elapsed, response_data, printed,
                   exit_code>>
    /\ Deliver(topic)
    /\ UnchangedCalls

\* on_disconnect(client, userdata, rc), after a disconnect the client asked for
Test_on_disconnect ==
    /\ prog = "test" /\ LoopThreadRuns /\ client.state = "disconnecting"
    /\ client' = [client EXCEPT !.state = "closed"]
    /\ Log("on_disconnect", "0")
    /\ Say("disconnected_gracefully")
    /\ UNCHANGED <<prog, args, pc, scenario, userdata, elapsed, response_received,
                   response_data, outcome, exit_code>>
    /\ NoMessage

\* ------------------------------------------------ mqtt_issue_cert.py: main
\* main(), up to the try block: request id, userdata, client, TLS, callbacks
Issue_main ==
    /\ prog = "issue" /\ pc = "main"
    /\ \E request_id \in RIDs : userdata' = Some(NewUserdata(request_id))
    /\ client' = NewClient
    /\ pc' = "connect"
    /\ UNCHANGED <<prog, args, scenario, elapsed, response_received, response_data,
                   outcome, printed, exit_code>>
    /\ NoLog
    /\ NoMessage

\* except Exception: print the error and sys.exit(1)
Issue_except_Exception ==
    /\ Say("error") /\ Exit(1)

\* client.connect(args.host, args.port, keepalive=60), which raises when unreachable
Issue_connect ==
    /\ prog = "issue" /\ pc = "connect"
    /\ \/ /\ client' = Connected(client)
          /\ Log("connect", "main")
          /\ pc' = "loop_start"
          /\ UNCHANGED <<printed, exit_code>>
       \/ /\ Issue_except_Exception
          /\ UNCHANGED <<client>> /\ NoLog
    /\ UNCHANGED <<prog, args, scenario, userdata, elapsed, response_received,
                   response_data, outcome>>
    /\ NoMessage

\* client.loop_start(); start_time = time.time()
Issue_loop_start ==
    /\ prog = "issue" /\ pc = "loop_start"
    /\ client' = [client EXCEPT !.loop = "running", !.thread_alive = TRUE]
    /\ Log("loop_start", "main")
    /\ elapsed' = 0
    /\ pc' = "wait_response"
    /\ UNCHANGED <<prog, args, scenario, userdata, response_received, response_data,
                   outcome, printed, exit_code>>
    /\ NoMessage

\* while not response_received and (time.time() - start_time) < args.timeout: sleep(0.1)
Issue_wait_response ==
    /\ prog = "issue" /\ pc = "wait_response"
    /\ IF ~response_received /\ elapsed < timeout
       THEN elapsed' = elapsed + 1 /\ pc' = pc /\ Log("poll", "0.1")
       ELSE elapsed' = elapsed /\ NoLog /\ pc' = "check_response"
    /\ UNCHANGED <<prog, args, scenario, userdata, response_received, response_data,
                   outcome, client, printed, exit_code>>
    /\ NoMessage

\* if not response_received: print the timeout, client.disconnect(), sys.exit(1)
Issue_check_response ==
    /\ prog = "issue" /\ pc = "check_response"
    /\ IF ~response_received
       THEN /\ Say("timeout")
            /\ client' = Disconnected(client)
            /\ Log("disconnect", "timeout")
            /\ Exit(1)
       ELSE /\ pc' = "grace_sleep"
            /\ UNCHANGED <<printed, client, exit_code>> /\ NoLog
    /\ UNCHANGED <<prog, args, scenario, userdata, elapsed, response_received,
                   response_data, outcome>>
    /\ NoMessage

\* time.sleep(0.5)
Issue_grace_sleep ==
    /\ prog = "issue" /\ pc = "grace_sleep"
    /\ pc' = "loop_stop"
    /\ UNCHANGED <<prog, args, scenario, userdata, elapsed, response_received,
                   response_data, outcome, client, printed, exit_code>>
    /\ NoLog
    /\ NoMessage

\* variant of the exit status that compares with the wrong literal
Issue_exit_status_WrongLiteral ==
    IF response_data # Nothing /\ The(response_data).status_code = "200" THEN 0 ELSE 1

\* if response_data and response_data.get('status_code') == '202': 0, else 1
Issue_exit_status ==
    IF response_data # Nothing /\ The(response_data).status_code = "202" THEN 0 ELSE 1

\* client.loop_stop(); sys.exit with the status the outcome record gives
Issue_loop_stop ==
    /\ prog = "issue" /\ pc = "loop_stop"
    /\ client' = LoopStopped(client)
    /\ Log("loop_stop", "main")
    /\ Exit(Issue_exit_status)
    /\ UNCHANGED <<prog, args, scenario, userdata, elapsed, response_received,
                   response_data, outcome, printed>>
    /\ NoMessage

\* where the foreground is inside the try block
IssueTryPcs ==
    {"connect", "loop_start", "wait_response", "check_response", "grace_sleep", "loop_stop"}

\* except KeyboardInterrupt: print, client.disconnect()
Issue_KeyboardInterrupt ==
    /\ prog = "issue" /\ pc \in IssueTryPcs
    /\ Say("interrupted")
    /\ client' = Disconnected(client)
    /\ Log("disconnect", "interrupt")
    /\ pc' = "interrupt_loop_stop"
    /\ UNCHANGED <<prog, args, scenario, userdata, elapsed, response_received,
                   response_data, outcome, exit_code>>
    /\ NoMessage

\* ... client.loop_stop(); sys.exit(1)
Issue_interrupt_loop_stop ==
    /\ prog = "issue" /\ pc = "interrupt_loop_stop"
    /\ client' = LoopStopped(client)
    /\ Log("loop_stop", "interrupt")
    /\ Exit(1)
    /\ UNCHANGED <<prog, args, scenario, userdata, elapsed, response_received,
                   response_data, outcome, printed>>
    /\ NoMessage

\* ------------------------------------------- mqtt_issue_cert.py: callbacks
\* error_messages of on_connect
ErrorMessages ==
    [rc \in 1..5 |->
        CASE rc = 1 -> "Incorrect protocol version"
          [] rc = 2 -> "Invalid client identifier"
          [] rc = 3 -> "Server unavailable"
          [] rc = 4 -> "Bad username or password"
          [] rc = 5 -> "Not authorized"]

\* on_connect(client, userdata, flags, rc)
Issue_on_connect(rc) ==
    /\ prog = "issue" /\ LoopThreadRuns /\ client.state = "connecting"
    /\ IF rc = 0
       THEN /\ client' = [client EXCEPT !.state = "connected", !.connack_ok = TRUE,
                                        !.sub_sent = TRUE, !.sub_pending = TRUE]
            /\ LogAll(<<Ev("on_connect", "0"),
                        Ev("subscribe", The(userdata).subscribe_topic)>>)
            /\ UNCHANGED printed
       ELSE /\ client' = ThreadExited([client EXCEPT !.state = "refused"])
            /\ Log("on_connect", "refused")
            /\ printed' = printed \cup {"connection_failed"}
                            \cup (IF rc \in DOMAIN ErrorMessages THEN {ErrorMessages[rc]} ELSE {})
    /\ UNCHANGED <<prog, args, pc, scenario, userdata, elapsed, response_received,
                   response_data, outcome, exit_code>>
    /\ NoMessage

\* on_subscribe(client, userdata, mid, granted_qos): publishes the request
Issue_on_subscribe(result_rc) ==
    /\ prog = "issue" /\ LoopThreadRuns /\ SessionOpen /\ client.sub_pending
    /\ IF result_rc = "MQTT_ERR_SUCCESS"
       THEN /\ client' = [client EXCEPT !.sub_pending = FALSE, !.suback_seen = TRUE,
                                        !.pub_pending = TRUE]
            /\ LogAll(<<Ev("on_subscribe", ""), Ev("publish", The(userdata).publish_topic)>>)
            /\ UNCHANGED printed
       ELSE /\ client' = [client EXCEPT !.sub_pending = FALSE, !.suback_seen = TRUE]
            /\ LogAll(<<Ev("on_subscribe", ""),
                        Ev("publish_rejected", The(userdata).publish_topic)>>)
            /\ Say("publish_failed")
    /\ UNCHANGED <<prog, args, pc, scenario, userdata, elapsed, response_received,
                   response_data, outcome, exit_code>>
    /\ NoMessage

\* on_publish(client, userdata, mid): only prints
Issue_on_publish ==
    /\ prog = "issue" /\ LoopThreadRuns /\ SessionOpen /\ client.pub_pending
    /\ client' = [client EXCEPT !.pub_pending = FALSE]
    /\ Log("on_publish", "")
    /\ UNCHANGED <<prog, args, pc, scenario, userdata, elapsed, response_received,
                   response_data, outcome, printed, exit_code>>
    /\ NoMessage

\* variant of on_message that completes the run only for a 202 response
Issue_on_message_OnlyOn202(topic, payload) ==
    /\ prog = "issue" /\ LoopThreadRuns /\ SessionOpen /\ client.sub_sent
    /\ Count("on_message") < MaxMsgs
    /\ LET status_code == IssueCert_status_code(topic)
       IN  /\ response_data' = Some([topic |-> topic, payload |-> Decode(payload),
                                     status_code |-> status_code])
           /\ Say(IF status_code = "202" THEN "success_202" ELSE "warning_expected_202")
           /\ IF status_code = "202"
              THEN /\ LogAll(<<Ev("on_message", TopicString(topic)),
                               Ev("disconnect", "on_message")>>)
                   /\ response_received' = TRUE
                   /\ client' = Disconnected(client)
              ELSE /\ Log("on_message", TopicString(topic))
                   /\ UNCHANGED <<response_received, client>>
    /\ UNCHANGED <<prog, args, pc, scenario, userdata, elapsed, outcome, exit_code>>
    /\ Deliver(topic)
    /\ UnchangedCalls

\* on_message(client, userdata, msg)
Issue_on_message(topic, payload) ==
    /\ prog = "issue" /\ LoopThreadRuns /\ SessionOpen /\ client.sub_sent
    /\ Count("on_message") < MaxMsgs
    /\ LET status_code == IssueCert_status_code(topic)
       IN  /\ response_data' = Some([topic |-> topic, payload |-> Decode(payload),
                                     status_code |-> status_code])
           /\ Say(IF status_code = "202" THEN "success_202" ELSE "warning_expected_202")
           /\ LogAll(<<Ev("on_message", TopicString(topic)),
                       Ev("disconnect", "on_message")>>)
    /\ response_received' = TRUE
    /\ client' = Disconnected(client)
    /\ UNCHANGED <<prog, args, pc, scenario, userdata, elapsed, outcome, exit_code>>
    /\ Deliver(topic)
    /\ UnchangedCalls

\* on_disconnect(client, userdata, rc), after a disconnect the client asked for
Issue_on_disconnect ==
    /\ prog = "issue" /\ LoopThreadRuns /\ client.state = "disconnecting"
    /\ client' = [client EXCEPT !.state = "closed"]
    /\ Log("on_disconnect", "0")
    /\ Say("disconnected_gracefully")
    /\ UNCHANGED <<prog, args, pc, scenario, userdata, elapsed, response_received,
                   response_data, outcome, exit_code>>
    /\ NoMessage

\* ------------------------------------------------------------ specification
Next ==
    \/ Test_main
    \/ Test_run_scenario
    \/ Test_connect
    \/ Test_loop_start
    \/ Test_wait_disconnect
    \/ Test_check_disconnected
    \/ Test_reconnect_sleep
    \/ Test_reconnect
    \/ Test_wait_response
    \/ Test_check_response
    \/ Test_grace_sleep
    \/ Test_loop_stop
    \/ Test_KeyboardInterrupt
    \/ Test_interrupt_loop_stop
    \/ \E rc \in ConnackCodes : Test_on_connect(rc)
    \/ \E result_rc \in PublishResults : Test_on_subscribe(result_rc)
    \/ Test_on_publish
    \/ \E topic \in DeliveredTopics, payload \in Payloads : Test_on_message(topic, payload)
    \/ Test_on_disconnect
    \/ Issue_main
    \/ Issue_connect
    \/ Issue_loop_start
    \/ Issue_wait_response
    \/ Issue_check_response
    \/ Issue_grace_sleep
    \/ Issue_loop_stop
    \/ Issue_KeyboardInterrupt
    \/ Issue_interrupt_loop_stop
    \/ \E rc \in ConnackCodes : Issue_on_connect(rc)
    \/ \E result_rc \in PublishResults : Issue_on_subscribe(result_rc)
    \/ Issue_on_publish
    \/ \E topic \in DeliveredTopics, payload \in Payloads : Issue_on_message(topic, payload)
    \/ Issue_on_disconnect

Spec == Init /\ [][Next]_vars

\* ------------------------------------ the parsing functions, called directly
\* any topic at all is handed to one of the functions
InitCalls ==
    /\ prog = "calls"
    /\ args = Nothing
    /\ pc = "main"
    /\ scenario = Nothing
    /\ userdata = Nothing
    /\ elapsed = 0
    /\ response_received = FALSE
    /\ response_data = Nothing
    /\ outcome = Nothing
    /\ client = NoClient
    /\ delivered = Nothing
    /\ last = <<>>
    /\ count = [e \in EventNames |-> 0]
    /\ printed = {}
    /\ exit_code = Nothing
    /\ call_topic \in Topics
    /\ call_result = NoCall
    /\ handler = Nothing

Called(fn, result) ==
    /\ prog = "calls" /\ call_result = NoCall
    /\ call_result' = [fn |-> fn, result |-> Some(result)]
    /\ UNCHANGED <<prog, args, pc, scenario, userdata, elapsed, response_received,
                   response_data, outcome, client, delivered, last, count, printed,
                   exit_code, call_topic, handler>>

\* HappyPathScenario().validate_response(topic, payload)
Call_HappyPath_validate_response ==
    \E payload \in Payloads :
        Called("HappyPath", HappyPath_validate_response(call_topic, Decode(payload)))

\* DisconnectReconnectScenario().validate_response(topic, payload)
Call_DisconnectReconnect_validate_response ==
    \E payload \in Payloads :
        Called("DisconnectReconnect",
               DisconnectReconnect_validate_response(call_topic, Decode(payload)))

\* the status-code extraction of mqtt_issue_cert.on_message
Call_IssueCert_status_code == Called("IssueCert_status_code", IssueCert_status_code(call_topic))

\* the status-code extraction of mqtt_credential_test's on_message
Call_Test_printed_status_code ==
    Called("Test_printed_status_code", Test_printed_status_code(call_topic))

NextCalls ==
    \/ Call_HappyPath_validate_response
    \/ Call_DisconnectReconnect_validate_response
    \/ Call_IssueCert_status_code
    \/ Call_Test_printed_status_code

SpecCalls == InitCalls /\ [][NextCalls]_vars

\* ------------------------------------------------- segments, stated directly
\* where the delimiters of a topic are
SlashPositions(t) == {i \in DOMAIN t : t[i] = Slash}

\* the number of '/'-delimited segments
NumSegments(t) == Cardinality(SlashPositions(t)) + 1

\* the k-th segment (from 0) of a topic that has it: what lies between the
\* k-th delimiter (or the start) and the next one (or the end)
Segment(t, k) ==
    LET before == {i \in SlashPositions(t) :
                     Cardinality({j \in SlashPositions(t) : j <= i}) = k}
        lo == IF k = 0 THEN 0 ELSE CHOOSE i \in before : TRUE
        after == {i \in SlashPositions(t) : i > lo}
        hi == IF after = {} THEN Len(t) + 1
              ELSE CHOOSE i \in after : \A j \in after : i <= j
    IN  IF hi = lo + 1 THEN "" ELSE t[lo + 1]

ValidateCalled == call_result.fn \in {"HappyPath", "DisconnectReconnect"}

Contains(message, part) == \E i \in DOMAIN message : message[i] = part

\* C7: for every topic with at least 4 '/'-delimited segments, validate_response of
\* both registered scenarios returns success = true exactly when segment 3 is the
\* literal "202", and otherwise returns success = false with a message that
\* contains the segment's value.
C7_SuccessIffSegment3Is202 ==
    (ValidateCalled /\ NumSegments(call_topic) >= 4) =>
        LET r == The(call_result.result)
            code == Segment(call_topic, 3)
        IN  /\ ~r.raised
            /\ r.success <=> (code = "202")
            /\ code # "202" => Contains(r.message, code)

\* a response with status 400 was validated by the disconnect_reconnect scenario
C7_Witness ==
    /\ call_result.fn = "DisconnectReconnect"
    /\ call_topic = ResponseTopic("400", 1)
    /\ The(call_result.result) = Returns(FALSE, <<MsgExpected202, "400">>)

\* C8: for every topic with fewer than 4 '/'-delimited segments, the empty topic
\* included, validate_response returns success = false with the parse-failure
\* message and does not raise, and the handlers' own extraction of the status
\* code does not raise either.
C8_ShortTopicIsParseFailure ==
    (call_result # NoCall /\ NumSegments(call_topic) < 4) =>
        IF ValidateCalled
        THEN The(call_result.result) = Returns(FALSE, <<MsgParseFailure>>)
        ELSE The(call_result.result) = None

\* the empty topic was validated, and a three-segment topic was parsed by a handler
C8_Witness ==
    \/ call_result.fn = "HappyPath" /\ call_topic = <<>>
    \/ call_result.fn = "IssueCert_status_code" /\ call_topic = ResPrefix

\* ------------------------------------------------------------- the runs
Exited == pc = "exited"

\* the run is a happy-path run: the simple script, or the runner's happy_path
HappyRun ==
    \/ prog = "issue" /\ userdata # Nothing
    \/ prog = "test" /\ scenario # Nothing /\ The(scenario).name = "happy_path"

\* the run is the runner's disconnect_reconnect scenario
ReconnectRun ==
    prog = "test" /\ scenario # Nothing /\ The(scenario).name = "disconnect_reconnect"

\* the topic the run publishes its request on
RunPublishTopic ==
    IF prog = "test" THEN The(scenario).publish_topic ELSE The(userdata).publish_topic

\* the outcome the run reports is a validated response
Validated ==
    IF prog = "test" THEN outcome # Nothing /\ The(outcome).success
    ELSE response_data # Nothing /\ The(response_data).status_code = "202"

\* the run was cut short: interrupted, an exception, or the timeout
CutShort == printed \cap {"interrupted", "error", "timeout"} # {}

\* C1: in both programs the request is published only from inside the
\* subscribe-acknowledgment handler: the step that publishes is on_subscribe, on a
\* connection that was acknowledged with rc = 0 and whose subscribe was
\* acknowledged, and there are never more publishes than subscribe-acks.
C1_PublishOnlyFromSubscribeAck ==
    /\ (Did("publish") \/ Did("publish_rejected")) =>
          /\ last[1] = Ev("on_subscribe", "")
          /\ client.connack_ok /\ client.suback_seen
          /\ last[2][2] = RunPublishTopic
    /\ Count("publish") + Count("publish_rejected") <= Count("on_subscribe")
    /\ Count("on_subscribe") <= Count("subscribe")
    /\ Count("subscribe") <= Count("on_connect")

\* the request was published on the runner's second connection
C1_Witness == prog = "test" /\ Did("publish") /\ client.connects = 2

\* C2: happy_path: when the connect succeeded, the subscribe was acknowledged, the
\* request was published with correlationId N, and the one message of the run
\* arrived on $iothub/credentials/res/202/?$rid=N&$version=1 before the timeout,
\* the run ends with the flag set, the response validated, a disconnect issued
\* and exit status 0.
C2_Premise ==
    /\ Exited /\ HappyRun /\ ~CutShort
    /\ Count("publish") = 1 /\ Count("on_message") = 1
    /\ \E N \in RIDs :
          /\ RunPublishTopic = PublishTopic(N)
          /\ delivered = Some([topic |-> ResponseTopic("202", N), connection |-> 1])

C2_HappyPath ==
    C2_Premise =>
        /\ response_received
        /\ Validated
        /\ Count("disconnect") >= 1
        /\ exit_code = Some(0)

\* the simple script ended such a run
C2_Witness == C2_Premise /\ prog = "issue" /\ exit_code = Some(0)

\* C3: disconnect_reconnect: the publish-ack handler unsubscribes and then
\* disconnects; the controller reconnects only after it saw the client
\* disconnected and slept 3 seconds, and takes a fresh start_time; every
\* subscribe uses the same filter; and once a message with status "202" was
\* delivered on the second connection, the flag is set and the outcome is a
\* success, up to the end of the run.
C3_DisconnectReconnect ==
    ReconnectRun =>
        /\ Did("on_publish") =>
              /\ last = <<Ev("on_publish", ""), Ev("unsubscribe", SubscribeTopic),
                          Ev("disconnect", "on_publish")>>
              /\ ~is_connected
        /\ Did("sleep") =>
              /\ last = <<Ev("sleep", "3")>>
              /\ "client_disconnected_as_expected" \in printed
        /\ (Did("connect") /\ client.connects = 2) => (Count("sleep") = 1 /\ elapsed = 0)
        /\ client.connects = 2 => Count("sleep") = 1
        /\ Did("subscribe") => last[2] = Ev("subscribe", SubscribeTopic)
        /\ (/\ delivered # Nothing
            /\ The(delivered).connection = 2
            /\ NumSegments(The(delivered).topic) >= 4
            /\ Segment(The(delivered).topic, 3) = "202") =>
              (response_received /\ Validated)

\* the request was published and acknowledged on the first connection, the
\* client reconnected, and the 202 response arrived on the second connection
C3_Witness ==
    /\ Exited /\ ReconnectRun /\ ~CutShort
    /\ client.connects = 2 /\ client.connack_ok /\ ~client.suback_seen
    /\ Count("publish") = 1 /\ Count("on_publish") = 1 /\ Count("unsubscribe") = 1
    /\ Count("on_message") = 1
    /\ delivered = Some([topic |-> ResponseTopic("202", The(scenario).request_id),
                         connection |-> 2])
    /\ response_received /\ Validated

\* C4: a run's exit status is zero if and only if a response was received and
\* validated.
C4_ExitZeroIffValidated ==
    (Exited /\ client.created) =>
        (exit_code = Some(0) <=> (response_received /\ Validated))

\* C5: when no message arrived within the timeout, the controller disconnects and
\* the process exits with status 1.
C5_TimeoutExitsOne ==
    (Exited /\ "timeout" \in printed /\ "interrupted" \notin printed) =>
        (Count("disconnect") >= 1 /\ exit_code = Some(1))

\* C6: on every exit path after loop_start, the loop has been stopped when the
\* run ends.
C6_LoopStoppedOnExit ==
    (Exited /\ Happened("loop_start")) => client.loop = "stopped"

\* C9: once the connect callback has reported a non-zero result code, the run is
\* over with a non-zero exit status: nothing is subscribed or published, there
\* is no second connect, and the controller does not wait for the timeout.
C9_ConnectFailureIsFatal ==
    "connection_failed" \in printed =>
        /\ Exited /\ exit_code # Some(0)
        /\ Count("subscribe") = 0 /\ Count("publish") = 0
        /\ client.connects = 1
        /\ "timeout" \notin printed

\* C10 as stated: an unknown scenario name ends in the unknown-scenario error
\* with exit status 1, before any run starts.
C10_UnknownScenarioExitsOne ==
    (prog = "test" /\ Exited /\ args.scenario \notin SCENARIOS) =>
        /\ "unknown_scenario" \in printed /\ exit_code = Some(1)
        /\ ~client.created /\ Count("connect") = 0

\* C10, amended: with an unknown scenario name no run ever starts (no scenario
\* object, no client, no connect); and when --list-scenarios is not given and an
\* authentication method is, main() ends in the unknown-scenario error with exit
\* status 1.
C10_UnknownScenarioNeverRuns ==
    (prog = "test" /\ args.scenario \notin SCENARIOS) =>
        /\ pc \in {"main", "exited"}
        /\ scenario = Nothing /\ ~client.created /\ Count("connect") = 0
        /\ (Exited /\ ~args.list_scenarios /\ args.auth # "none") =>
              ("unknown_scenario" \in printed /\ exit_code = Some(1))

\* main() reported an unknown scenario
C10_Witness ==
    /\ prog = "test" /\ Exited /\ args.scenario \notin SCENARIOS
    /\ "unknown_scenario" \in printed /\ exit_code = Some(1)

\* ----------------------------------------------------- the run's identifiers
\* the correlationId of the run
RunRequestId ==
    IF prog = "test" THEN The(scenario).request_id
    ELSE CHOOSE r \in RIDs : The(userdata).publish_topic = PublishTopic(r)

RunStarted == (prog = "test" /\ scenario # Nothing) \/ (prog = "issue" /\ userdata # Nothing)

\* the topics of the step's calls of this kind
Called_topics(e) == {last[i][2] : i \in {j \in DOMAIN last : last[j][1] = e}}

\* every subscribe uses the filter and every publish the $rid of the run
C11_CallsUseRunIdentifiers ==
    RunStarted =>
        /\ Called_topics("subscribe") \subseteq {"$iothub/credentials/res/#"}
        /\ Called_topics("unsubscribe") \subseteq {"$iothub/credentials/res/#"}
        /\ Called_topics("publish") \cup Called_topics("publish_rejected") \subseteq
              {"$iothub/credentials/POST/issueCertificate/?$rid=" \o ToString(RunRequestId)}
        /\ prog = "test" =>
              /\ The(scenario).subscribe_topic = "$iothub/credentials/res/#"
              /\ The(scenario).publish_topic =
                    "$iothub/credentials/POST/issueCertificate/?$rid="
                        \o ToString(The(scenario).request_id)

\* once constructed, the scenario (the simple script's userdata) is never assigned
C11_IdentifiersNeverAssigned ==
    /\ scenario # Nothing => scenario' = scenario
    /\ userdata # Nothing => userdata' = userdata

\* C11: the correlationId, the publish topic and the subscribe filter are fixed
\* when the scenario is constructed and never change during the run: every
\* publish and every subscribe, before and after the reconnect, uses the same
\* $rid and the filter $iothub/credentials/res/#.
C11_IdentifiersFixed ==
    [](C11_CallsUseRunIdentifiers) /\ [][C11_IdentifiersNeverAssigned]_vars

\* the runner subscribed again on its second connection, after its publish
C11_Witness ==
    /\ ReconnectRun /\ client.connects = 2 /\ Did("subscribe")
    /\ Count("publish") = 1 /\ Count("subscribe") = 2

\* C12: in disconnect_reconnect the controller connects a second time only after
\* the request was published and acknowledged on the first connection and the
\* publish-ack handler disconnected it.
C12_ReconnectOnlyAfterDeliberateDisconnect ==
    (ReconnectRun /\ client.connects >= 2) =>
        /\ Count("publish") >= 1
        /\ Count("on_publish") >= 1
        /\ Count("unsubscribe") >= 1 /\ Count("disconnect") >= 1

\* what the publish-ack handler does, and that nothing else does it
C13_PublishAckCalls ==
    /\ Did("on_publish") =>
          IF ReconnectRun
          THEN last = <<Ev("on_publish", ""), Ev("unsubscribe", SubscribeTopic),
                        Ev("disconnect", "on_publish")>>
          ELSE last = <<Ev("on_publish", "")>>
    /\ (Did("unsubscribe") \/ \E i \in DOMAIN last : last[i] = Ev("disconnect", "on_publish")) =>
          (ReconnectRun /\ last[1] = Ev("on_publish", ""))
    /\ Count("unsubscribe") <= Count("on_publish")
    /\ Count("on_publish") <= Count("publish")

\* a publish-ack of a run without disconnectAfterPublish leaves the connection as it is
C13_PublishAckKeepsConnection ==
    (Did("on_publish")' /\ ~ReconnectRun) =>
        /\ client'.state = client.state
        /\ UNCHANGED <<response_received, pc>>

\* C13: on the publish acknowledgment, with disconnectAfterPublish set the handler
\* calls unsubscribe and then disconnect, in that order, and neither is called
\* for that reason before the publish-ack; without the flag (happy_path and the
\* simple script) the handler calls neither and the client stays as it is.
C13_PublishAck ==
    [](C13_PublishAckCalls) /\ [][C13_PublishAckKeepsConnection]_vars

\* a happy-path publish was acknowledged and the client is still connected
C13_Witness ==
    /\ HappyRun /\ Did("on_publish") /\ is_connected /\ ~response_received

\* a step taken with the flag set leaves the flag and the outcome record alone
C14_NoMutationAfterSet ==
    response_received => (response_received' /\ response_data' = response_data)

\* C14: once the response-received flag is set, neither the flag nor the outcome
\* record (response_data) changes for the rest of the run, whatever further
\* messages are delivered before the disconnect completes.
C14_SetOnce == [][C14_NoMutationAfterSet]_vars

\* C15: a message is accepted as the response (the flag is set) only after the
\* request's publish was acknowledged in this run.
C15_AcceptedOnlyAfterPublishAck ==
    response_received => (Count("publish") >= 1 /\ Count("on_publish") >= 1)

\* ------------------------------------- run_scenario, called in a used process
\* run_scenario(scenario_class, use_cert_auth) is entered in a process in which
\* an earlier run may have received a response: the module-level flag is as
\* that run left it, and so is what that run's validation returned
InitRerun ==
    /\ prog = "test"
    /\ args \in {a \in TestArgs :
                    a.scenario \in SCENARIOS /\ ~a.list_scenarios /\ a.auth # "none"}
    /\ pc = "run_scenario"
    /\ scenario = Nothing
    /\ userdata = Nothing
    /\ elapsed = 0
    /\ response_received \in BOOLEAN
    /\ response_data = Nothing
    /\ outcome = IF response_received
                 THEN Some(validate_response("happy_path", ResponseTopic("202", 1), <<>>))
                 ELSE Nothing
    /\ client = NoClient
    /\ delivered = Nothing
    /\ last = <<>>
    /\ count = [e \in EventNames |-> 0]
    /\ printed = {}
    /\ exit_code = Nothing
    /\ call_topic = <<>>
    /\ call_result = NoCall
    /\ handler = Nothing

NextRerun ==
    \/ Test_run_scenario
    \/ Test_connect
    \/ Test_loop_start
    \/ Test_wait_disconnect
    \/ Test_check_disconnected
    \/ Test_reconnect_sleep
    \/ Test_reconnect
    \/ Test_wait_response
    \/ Test_check_response
    \/ Test_grace_sleep
    \/ Test_loop_stop
    \/ Test_KeyboardInterrupt
    \/ Test_interrupt_loop_stop
    \/ \E rc \in ConnackCodes : Test_on_connect(rc)
    \/ \E result_rc \in PublishResults : Test_on_subscribe(result_rc)
    \/ Test_on_publish
    \/ \E topic \in DeliveredTopics, payload \in Payloads : Test_on_message(topic, payload)
    \/ Test_on_disconnect

SpecRerun == InitRerun /\ [][NextRerun]_vars

\* the flag is false from the reset on, until a message is handled
C16_FlagFalseUntilMessage ==
    /\ pc = "run_scenario" => ~client.created
    /\ (prog = "test" /\ scenario # Nothing /\ Count("on_message") = 0) => ~response_received

\* only the reset of run_scenario and the message callback write the flag
C16_OnlyWriters ==
    response_received' # response_received =>
        \/ pc = "run_scenario" /\ ~response_received'
        \/ Did("on_message")' /\ response_received'

\* C16: the response-received flag is false when a run starts, also when an
\* earlier run in the same process had set it: run_scenario resets it before the
\* transport client exists; after that the foreground only reads it and the
\* message callback is its only writer.
C16_FlagResetPerRun ==
    [](C16_FlagFalseUntilMessage) /\ [][C16_OnlyWriters]_vars

\* an earlier run had received a response, and this run is under way with the
\* flag false
C16_Witness ==
    /\ outcome # Nothing /\ Count("on_message") = 0
    /\ Happened("loop_start") /\ pc = "wait_response" /\ ~response_received

\* the controller has made its second connect
Reconnected == ReconnectRun /\ client.connects = 2

\* after the reconnect the wait gives up only when a whole window has passed
C17_TimeoutAfterFullWindow ==
    (Reconnected /\ "timeout" \in printed) => elapsed = TimeoutTicks

\* the reconnect takes a new start_time, and the wait after it counts every poll
C17_BaselineAtReconnect ==
    /\ (~Reconnected /\ Reconnected') => elapsed' = 0
    /\ (Reconnected /\ Did("poll")') =>
          (pc = "wait_response" /\ elapsed < TimeoutTicks /\ elapsed' = elapsed + 1)
    /\ (Reconnected /\ ~Did("poll")') => elapsed' = elapsed

\* C17: in disconnect_reconnect, once the controller has reconnected, the wait
\* for the response is measured from a baseline taken at the reconnect: it
\* lasts the whole timeout window, however much of the window the wait for the
\* disconnection consumed.
C17_FreshTimeoutBaseline ==
    [](C17_TimeoutAfterFullWindow) /\ [][C17_BaselineAtReconnect]_vars

\* the wait for the disconnection took part of the window, and the wait after the
\* reconnect then took all of it and timed out
C17_Witness ==
    /\ Reconnected /\ "timeout" \in printed /\ "interrupted" \notin printed
    /\ Count("on_publish") = 1
    /\ elapsed = TimeoutTicks /\ Count("poll") > TimeoutTicks

\* the topic has no status segment, or one that is not "202"
BadTopic(t) == NumSegments(t) < 4 \/ Segment(t, 3) # "202"

\* the message callback has just handled a response that does not validate
BadResponseHandled ==
    Did("on_message") /\ delivered # Nothing /\ BadTopic(The(delivered).topic)

\* the handler of such a response returns normally, reports the failure, sets the
\* flag and disconnects
C18_HandlerCompletes ==
    BadResponseHandled =>
        /\ last = <<Ev("on_message", TopicString(The(delivered).topic)),
                    Ev("disconnect", "on_message")>>
        /\ client.thread_alive
        /\ response_received /\ ~is_connected
        /\ ~Validated
        /\ IF prog = "test"
           THEN /\ outcome # Nothing /\ ~The(outcome).raised /\ ~The(outcome).success
                /\ The(outcome).message # <<>>
           ELSE "warning_expected_202" \in printed

\* with the flag set the controller neither polls on nor reports a timeout
C18_WaitEnds ==
    response_received =>
        /\ elapsed' <= elapsed
        /\ "timeout" \in printed' => "timeout" \in printed
        /\ pc = "wait_response" => pc' \in {"wait_response", "check_response",
                                            "interrupt_loop_stop"}
        /\ pc = "check_response" => pc' \in {"check_response", "grace_sleep",
                                             "interrupt_loop_stop"}

\* C18: a response whose status segment is not "202", or whose topic cannot be
\* parsed, completes the run with a reported failure: the message handler does
\* not raise, sets the response-received flag and disconnects, and the
\* controller's wait ends without running into the timeout.
C18_BadResponseCompletesRun ==
    [](C18_HandlerCompletes) /\ [][C18_WaitEnds]_vars

\* the simple script got a 400 before the window was over and exited with 1
C18_Witness ==
    /\ prog = "issue" /\ Exited /\ ~CutShort
    /\ args.timeout = TimeoutTicks /\ elapsed < TimeoutTicks
    /\ Count("on_message") = 1
    /\ The(delivered).topic = ResponseTopic("400", 1)
    /\ response_received /\ exit_code = Some(1)

\* the subscribe-ack handler whose publish was rejected logs that and calls
\* nothing else
C19_RejectionLogged ==
    Did("publish_rejected") =>
        /\ last = <<Ev("on_subscribe", ""), Ev("publish_rejected", RunPublishTopic)>>
        /\ "publish_failed" \in printed
        /\ ~client.pub_pending

\* a run whose publish was rejected, and that got no message, ends by the timeout
C19_EndsByTimeout ==
    (/\ Exited /\ Happened("publish_rejected") /\ Count("on_message") = 0
     /\ printed \cap {"interrupted", "error"} = {}) =>
        /\ "timeout" \in printed
        /\ ~response_received
        /\ prog = "issue" => exit_code = Some(1)

\* the handler leaves the connection and the controller as they are
C19_HandlerOnlyLogs ==
    Did("publish_rejected")' =>
        /\ client'.state = client.state
        /\ UNCHANGED <<pc, elapsed, response_received, response_data, outcome>>

\* C19: when the publish made from the subscribe-ack handler is rejected, the
\* failure is logged, the handler neither retries nor disconnects, and the run
\* goes on waiting and ends with the timeout outcome, the flag unset unless a
\* message arrives anyway.
C19_PublishRejected ==
    [](C19_RejectionLogged /\ C19_EndsByTimeout) /\ [][C19_HandlerOnlyLogs]_vars

\* the runner's happy_path publish was rejected and the run timed out
C19_Witness ==
    /\ prog = "test" /\ HappyRun /\ Exited
    /\ Count("publish_rejected") = 1 /\ Count("publish") = 0
    /\ Count("on_message") = 0
    /\ printed = {"publish_failed", "timeout", "disconnected_gracefully"}
    /\ elapsed = TimeoutTicks /\ ~response_received

\* the message callback has just handled a response with this status and $rid
ResponseHandled(code, rid) ==
    Did("on_message") /\ delivered # Nothing
        /\ The(delivered).topic = ResponseTopic(code, rid)

\* what the run made of the message it handled last
RunSuccess ==
    IF prog = "test" THEN The(outcome).success
    ELSE The(response_data).status_code = "202"

\* C20: response validation is independent of the correlation identifier: the
\* message handler accepts a well-formed response whatever its $rid, the
\* request's or another, and the success it reports is the one
\* validate_response (the simple script: the status-code comparison) gives for
\* the same topic with any other $rid.
C20_RidIndependent ==
    \A code \in Words, rid \in ResponseRids :
        ResponseHandled(code, rid) =>
            /\ response_received
            /\ last = <<Ev("on_message", TopicString(ResponseTopic(code, rid))),
                        Ev("disconnect", "on_message")>>
            /\ RunSuccess <=> (code = "202")
            /\ \A other \in ResponseRids :
                  IF prog = "test"
                  THEN \A name \in SCENARIOS :
                          validate_response(name, ResponseTopic(code, other), <<>>).success
                              = RunSuccess
                  ELSE (IssueCert_status_code(ResponseTopic(code, other)) = "202")
                              = RunSuccess

\* the runner accepted, as the first message, a 202 response whose $rid is not
\* the request's
C20_Witness ==
    /\ prog = "test" /\ Exited /\ ~CutShort
    /\ Count("on_message") = 1
    /\ \E rid \in ResponseRids :
          /\ rid # The(scenario).request_id
          /\ The(delivered).topic = ResponseTopic("202", rid)
    /\ response_received /\ The(outcome).success

\* ------------------------------------------------------ the foreground runs on
\* the statements of the main thread of either program; a KeyboardInterrupt and
\* the callbacks of the loop thread are events that may or may not happen
Foreground ==
    \/ Test_main
    \/ Test_run_scenario
    \/ Test_connect
    \/ Test_loop_start
    \/ Test_wait_disconnect
    \/ Test_check_disconnected
    \/ Test_reconnect_sleep
    \/ Test_reconnect
    \/ Test_wait_response
    \/ Test_check_response
    \/ Test_grace_sleep
    \/ Test_loop_stop
    \/ Test_interrupt_loop_stop
    \/ Issue_main
    \/ Issue_connect
    \/ Issue_loop_start
    \/ Issue_wait_response
    \/ Issue_check_response
    \/ Issue_grace_sleep
    \/ Issue_loop_stop
    \/ Issue_interrupt_loop_stop

\* time advances and the main thread is scheduled: its next statement is executed
SpecFair == Init /\ [][Next]_vars /\ WF_vars(Foreground)

\* no wait polls beyond its window
C21_WaitsBounded ==
    /\ elapsed <= timeout
    /\ Did("poll") => (elapsed <= timeout /\ pc \in {"wait_disconnect", "wait_response"})

\* C21: every run terminates: each polling wait of the controller ends no later
\* than its timeout, whether or not any callback fires, and the controller then
\* reaches its end (the process has exited).
C21_Terminates == [](C21_WaitsBounded) /\ <>Exited

\* a disconnect_reconnect run in which no callback ever fired has ended: the
\* wait after the reconnect took the whole window, then the loop was stopped
C21_Witness ==
    /\ ReconnectRun /\ Exited
    /\ \A e \in {"on_connect", "on_subscribe", "on_publish", "on_message",
                  "on_disconnect"} : Count(e) = 0
    /\ client.connects = 2 /\ Count("poll") = TimeoutTicks
    /\ "timeout" \in printed /\ "interrupted" \notin printed
    /\ client.loop = "stopped"

\* C22: within one run, the reconnect cycle included, the request is published
\* at most once, and the unsubscribe and disconnect after the publish-ack
\* happen at most once.
C22_PublishedAtMostOnce ==
    /\ Count("publish") <= 1
    /\ Count("unsubscribe") <= 1

\* ------------------- mqtt_issue_cert.on_message, statement by statement
\* variant of the handler's last statements that sets the flag before the record
Issue_on_message_statements_FlagFirst == <<"response_received", "response_data", "disconnect">>

\* the last three statements of on_message, in the order of the source:
\* response_data = {...}; response_received = True; client.disconnect()
Issue_on_message_statements == <<"response_data", "response_received", "disconnect">>

\* the statement the handler under way executes next
NextStatement == Issue_on_message_statements[The(handler).at]

HandlerIdle == handler = Nothing

\* the statement was executed: on to the next one, or the handler returns
Advance ==
    handler' = IF The(handler).at = Len(Issue_on_message_statements) THEN Nothing
               ELSE Some([The(handler) EXCEPT !.at = @ + 1])

\* on_message is called: it decodes the payload, takes the status code from the
\* topic and prints what it found; the three assignments and calls follow
Issue_on_message_enter(topic, payload) ==
    /\ prog = "issue" /\ LoopThreadRuns /\ SessionOpen /\ client.sub_sent
    /\ HandlerIdle
    /\ Count("on_message") < MaxMsgs
    /\ LET status_code == IssueCert_status_code(topic)
       IN  /\ handler' = Some([at |-> 1, topic |-> topic, payload_str |-> Decode(payload),
                                status_code |-> status_code])
           /\ Say(IF status_code = "202" THEN "success_202" ELSE "warning_expected_202")
    /\ Log("on_message", TopicString(topic))
    /\ Deliver(topic)
    /\ UNCHANGED <<prog, args, pc, scenario, userdata, elapsed, response_received,
                   response_data, outcome, client, exit_code, call_topic, call_result>>

\* response_data = {'topic': msg.topic, 'payload': payload_str, 'status_code': status_code}
Issue_on_message_response_data ==
    /\ prog = "issue" /\ LoopThreadRuns /\ ~HandlerIdle
    /\ NextStatement = "response_data"
    /\ response_data' = Some([topic |-> The(handler).topic,
                              payload |-> The(handler).payload_str,
                              status_code |-> The(handler).status_code])
    /\ Advance
    /\ NoLog
    /\ UNCHANGED <<prog, args, pc, scenario, userdata, elapsed, response_received,
                   outcome, client, delivered, printed, exit_code, call_topic,
                   call_result>>

\* response_received = True
Issue_on_message_response_received ==
    /\ prog = "issue" /\ LoopThreadRuns /\ ~HandlerIdle
    /\ NextStatement = "response_received"
    /\ response_received' = TRUE
    /\ Advance
    /\ NoLog
    /\ UNCHANGED <<prog, args, pc, scenario, userdata, elapsed, response_data,
                   outcome, client, delivered, printed, exit_code, call_topic,
                   call_result>>

\* client.disconnect()
Issue_on_message_disconnect ==
    /\ prog = "issue" /\ LoopThreadRuns /\ ~HandlerIdle
    /\ NextStatement = "disconnect"
    /\ client' = Disconnected(client)
    /\ Log("disconnect", "on_message")
    /\ Advance
    /\ UNCHANGED <<prog, args, pc, scenario, userdata, elapsed, response_received,
                   response_data, outcome, delivered, printed, exit_code, call_topic,
                   call_result>>

InitStatements == Init /\ prog = "issue"

\* the main thread runs between any two statements of the handler; the loop
\* thread fires its next callback only when the handler has returned
NextStatements ==
    \/ Issue_main
    \/ Issue_connect
    \/ Issue_loop_start
    \/ Issue_wait_response
    \/ Issue_check_response
    \/ Issue_grace_sleep
    \/ Issue_loop_stop
    \/ Issue_KeyboardInterrupt
    \/ Issue_interrupt_loop_stop
    \/ \E rc \in ConnackCodes : HandlerIdle /\ Issue_on_connect(rc)
    \/ \E result_rc \in PublishResults : HandlerIdle /\ Issue_on_subscribe(result_rc)
    \/ HandlerIdle /\ Issue_on_publish
    \/ \E topic \in DeliveredTopics, payload \in Payloads :
          Issue_on_message_enter(topic, payload)
    \/ Issue_on_message_response_data
    \/ Issue_on_message_response_received
    \/ Issue_on_message_disconnect
    \/ HandlerIdle /\ Issue_on_disconnect

SpecStatements == InitStatements /\ [][NextStatements]_vars

\* the foreground has seen the flag and is on its way to the exit-code decision
FlagObserved == pc \in {"grace_sleep", "loop_stop"}

\* C23: in the simple script, whenever the response-received flag is true the
\* outcome record is set and holds the topic, the decoded payload and the status
\* code of a message that was received: the record is written before the flag,
\* so the exit-code decision taken after the flag was seen reads a set record,
\* and the exit status is the one the record gives.
C23_RecordBeforeFlag ==
    /\ response_received =>
          /\ response_data # Nothing
          /\ The(response_data).topic \in DeliveredTopics
          /\ The(response_data).status_code = IssueCert_status_code(The(response_data).topic)
          /\ \E payload \in Payloads : The(response_data).payload = Decode(payload)
    /\ FlagObserved => (response_received /\ response_data # Nothing)
    /\ (Exited /\ Happened("loop_stop") /\ "interrupted" \notin printed) =>
          exit_code = Some(IF The(response_data).status_code = "202" THEN 0 ELSE 1)

\* the handler has written the record and not yet set the flag, while the main
\* thread is in its wait loop
C23_Witness ==
    /\ ~HandlerIdle /\ NextStatement = "response_received"
    /\ response_data # Nothing /\ ~response_received
    /\ pc = "wait_response" /\ Did("poll")

\* the wait for the disconnection ran into the timeout with the client connected,
\* and the controller is past its check of the client's state
StillConnectedAtTimeout ==
    /\ ReconnectRun /\ client.connects = 1 /\ elapsed >= timeout
    /\ pc \in {"wait_response", "check_response", "grace_sleep", "loop_stop"}

\* from there on: no reconnect, and without a response the timeout was reported
C24_TimeoutOutcome ==
    StillConnectedAtTimeout =>
        /\ Count("sleep") = 0 /\ Count("connect") = 1
        /\ elapsed = timeout
        /\ "client_disconnected_as_expected" \notin printed
        /\ pc \in {"grace_sleep", "loop_stop"} => ("timeout" \in printed \/ response_received)

\* the steps of the controller at the timeout with the client connected
C24_NoReconnectSteps ==
    /\ (ReconnectRun /\ pc = "check_disconnected" /\ is_connected /\ elapsed >= timeout
            /\ pc' # pc) =>
          /\ pc' \in {"wait_response", "interrupt_loop_stop"}
          /\ elapsed' = elapsed /\ client'.connects = client.connects
    /\ (StillConnectedAtTimeout /\ pc' # pc) =>
          /\ elapsed' = elapsed /\ client'.connects = 1
          /\ ~Did("poll")' /\ ~Did("sleep")' /\ ~Did("connect")'
          /\ (pc = "wait_response") => pc' \in {"check_response", "interrupt_loop_stop"}
          /\ (pc = "check_response" /\ ~response_received) =>
                \/ /\ pc' = "grace_sleep"
                   /\ "timeout" \in printed'
                   /\ last' = <<Ev("disconnect", "timeout")>>
                \/ pc' = "interrupt_loop_stop"

\* C24: in disconnect_reconnect, when the client is still connected as the wait
\* for the disconnection reaches the timeout, the controller makes no reconnect
\* and takes no new start_time: unless a response was received, it goes straight
\* to the timeout report and calls disconnect.
C24_NoReconnectWhenConnected ==
    [](C24_TimeoutOutcome) /\ [][C24_NoReconnectSteps]_vars

\* the wait for the disconnection used up the window with the client connected,
\* and the controller has just gone on to the response wait without reconnecting
C24_Witness ==
    /\ ReconnectRun /\ pc = "wait_response" /\ last = <<>>
    /\ is_connected /\ client.connects = 1
    /\ elapsed = TimeoutTicks /\ Count("poll") = TimeoutTicks
    /\ ~response_received

=============================================================================
